---- MODULE Spec2Model ----
(***************************************************************************)
(* Model of pytraverser.py: tree_select, the terminal tree browser.        *)
(*                                                                         *)
(* A _Node is named by the position of its id in the data source: the root *)
(* is <<>> and the i-th element of get_children(n) is Append(n, i).  The   *)
(* data source is a tree, so one id yields one _Node.  What the data       *)
(* source holds below an id is drawn when the id is first handed out       *)
(* (number_of_children + number_of_members) and whether a get_children     *)
(* call raises is drawn at the call.                                       *)
(*                                                                         *)
(* The cursor is the 0-based Python index; At(s, i) reads s[i].            *)
(***************************************************************************)
EXTENDS Integers, Sequences, FiniteSets, TLC

\* Bounds of the data source: total number of ids, and children per id.
MaxNodes == 5
MaxWidth == 2

\* Python's None, where a _Node or an id is expected: child indices start at
\* 1, so <<0>> names no id.
None == <<0>>
\* The id tree_select is called with, and the _Node built from it.
root == << >>

VARIABLES
    pc,             \* "start" | "wrapper" | "render" | "getch" | "done"
    nodes,          \* the _Node objects constructed so far
    parent,         \* _Node.parent
    children,       \* _Node.children
    loaded,         \* _Node.loaded
    expanded,       \* _Node.expanded
    nkids,          \* id.number_of_children + id.number_of_members
    cursor,         \* local cursor of _ui
    visible,        \* local visible of _ui (the last computed list)
    ch,             \* local ch of _ui (the last key read)
    selected_path,  \* the nonlocal selected_path / the value returned
    outcome,        \* "running" | "returned" | "raised"
    fetches,        \* number of get_children calls per id
    failed,         \* ids whose get_children call raised
    termLog,        \* terminal-mode events in the order they were emitted
    screen          \* the rows drawn by the last render, top to bottom

vars == <<pc, nodes, parent, children, loaded, expanded, nkids, cursor,
          visible, ch, selected_path, outcome, fetches, failed, termLog,
          screen>>

tree == <<nodes, parent, children, loaded, expanded, nkids>>

----------------------------------------------------------------------------
\* Helpers

Max(a, b) == IF a >= b THEN a ELSE b
Min(a, b) == IF a <= b THEN a ELSE b

At(s, i) == s[i + 1]

RECURSIVE SumOver(_, _)
SumOver(f, S) ==
    IF S = {} THEN 0
    ELSE LET x == CHOOSE y \in S : TRUE
         IN  f[x] + SumOver(f, S \ {x})

\* Ids the data source has announced: those constructed, and the children
\* that the ids not yet loaded are known to have.
Announced(ns, ld, nk) ==
    Cardinality(ns) + SumOver(nk, {n \in ns : ~ld[n]})

----------------------------------------------------------------------------
\* _build_visible

\* Variant of walk: the children of an expanded node are listed last first.
RECURSIVE walk_reversed(_, _, _, _)
walk_reversed(chn, ex, n, depth) ==
    LET RECURSIVE kidsFrom(_)
        kidsFrom(i) ==
            IF i < 1 THEN << >>
            ELSE walk_reversed(chn, ex, chn[n][i], depth + 1) \o kidsFrom(i - 1)
    IN  << <<n, depth>> >> \o (IF ex[n] THEN kidsFrom(Len(chn[n])) ELSE << >>)

\* Variant of walk: the expanded flag is not consulted.
RECURSIVE walk_all(_, _, _, _)
walk_all(chn, ex, n, depth) ==
    LET RECURSIVE kidsFrom(_)
        kidsFrom(i) ==
            IF i > Len(chn[n]) THEN << >>
            ELSE walk_all(chn, ex, chn[n][i], depth + 1) \o kidsFrom(i + 1)
    IN  << <<n, depth>> >> \o kidsFrom(1)

RECURSIVE walk(_, _, _, _)
walk(chn, ex, n, depth) ==
    LET RECURSIVE kidsFrom(_)
        kidsFrom(i) ==
            IF i > Len(chn[n]) THEN << >>
            ELSE walk(chn, ex, chn[n][i], depth + 1) \o kidsFrom(i + 1)
    IN  << <<n, depth>> >> \o (IF ex[n] THEN kidsFrom(1) ELSE << >>)

build_visible(chn, ex, r) == walk(chn, ex, r, 0)

----------------------------------------------------------------------------
\* _Node construction and get_children

\* get_children(n) when it does not raise: the ids below n, in order.
get_children(n) == [i \in 1..nkids[n] |-> Append(n, i)]

Range(s) == {s[i] : i \in 1..Len(s)}

\* _Node.id: a _Node is named by its id.
id(n) == n

\* The _Node fields as they stand.
Cur ==
    [nodes |-> nodes, parent |-> parent, children |-> children,
     loaded |-> loaded, expanded |-> expanded, nkids |-> nkids]

SetTree(t) ==
    /\ nodes' = t.nodes
    /\ parent' = t.parent
    /\ children' = t.children
    /\ loaded' = t.loaded
    /\ expanded' = t.expanded
    /\ nkids' = t.nkids

\* Variant of Populate: `node.loaded = True` is left out.
Populate_NotMarked(t, n, kids, cs) ==
    LET new == Range(kids)
        ns  == t.nodes \cup new
    IN  [nodes    |-> ns,
         parent   |-> [m \in ns |-> IF m \in new THEN n ELSE t.parent[m]],
         children |-> [m \in ns |-> IF m = n THEN kids
                                    ELSE IF m \in new THEN << >>
                                    ELSE t.children[m]],
         loaded   |-> [m \in ns |-> IF m \in new THEN FALSE ELSE t.loaded[m]],
         expanded |-> [m \in ns |-> IF m \in new THEN FALSE
                                    ELSE t.expanded[m]],
         nkids    |-> [m \in ns |->
                         IF m \in new
                         THEN cs[CHOOSE i \in 1..Len(kids) : kids[i] = m]
                         ELSE t.nkids[m]]]

\* The fields after `node.children = [_Node(cid, node) for cid in kids];
\* node.loaded = True`, with cs[i] the descendant count of the i-th kid.
Populate(t, n, kids, cs) ==
    LET new == Range(kids)
        ns  == t.nodes \cup new
    IN  [nodes    |-> ns,
         parent   |-> [m \in ns |-> IF m \in new THEN n ELSE t.parent[m]],
         children |-> [m \in ns |-> IF m = n THEN kids
                                    ELSE IF m \in new THEN << >>
                                    ELSE t.children[m]],
         loaded   |-> [m \in ns |-> IF m = n THEN TRUE
                                    ELSE IF m \in new THEN FALSE
                                    ELSE t.loaded[m]],
         expanded |-> [m \in ns |-> IF m \in new THEN FALSE
                                    ELSE t.expanded[m]],
         nkids    |-> [m \in ns |->
                         IF m \in new
                         THEN cs[CHOOSE i \in 1..Len(kids) : kids[i] = m]
                         ELSE t.nkids[m]]]

\* The descendant counts the data source may report for k new ids.
KidCounts(t, k) ==
    {cs \in [1..k -> 0..MaxWidth] :
        Announced(t.nodes, t.loaded, t.nkids) + SumOver(cs, 1..k) <= MaxNodes}

\* Variant of NeedsLoad: the loaded flag is not consulted.
NeedsLoad_Always(n) == TRUE

\* Line 154 (178, 191): `if not node.loaded`.
NeedsLoad(n) == ~loaded[n]

\* Lines 154-157 (178-181, 191-194) when get_children does not raise: the
\* fields the handler goes on with.
Fetched(n) ==
    IF NeedsLoad(n)
    THEN {Populate(Cur, n, get_children(n), cs) : cs \in KidCounts(Cur, nkids[n])}
    ELSE {Cur}

\* The get_children calls counted, one more for n if it was loaded now.
Counted(n, t) ==
    [m \in t.nodes |->
        IF m = n /\ NeedsLoad(n) THEN fetches[m] + 1
        ELSE IF m \in DOMAIN fetches THEN fetches[m]
        ELSE 0]

----------------------------------------------------------------------------
Init ==
    /\ pc = "start"
    /\ nodes = {}
    /\ parent = << >>
    /\ children = << >>
    /\ loaded = << >>
    /\ expanded = << >>
    /\ nkids \in {[n \in {root} |-> k] : k \in 0..Min(MaxWidth, MaxNodes - 1)}
    /\ cursor = 0
    /\ visible = << >>
    /\ ch = "none"
    /\ selected_path = None
    /\ outcome = "running"
    /\ fetches = [n \in {root} |-> 0]
    /\ failed = {}
    /\ termLog = << >>
    /\ screen = << >>

----------------------------------------------------------------------------
\* tree_select, before and around curses.wrapper(_ui)

\* Line 202: _exit_alt_screen() runs before curses.wrapper(_ui).
ExitAltScreen ==
    /\ pc = "start"
    /\ termLog' = Append(termLog, "exit")
    /\ pc' = "wrapper"
    /\ UNCHANGED <<tree, cursor, visible, ch, selected_path, outcome,
                   fetches, failed, screen>>

\* Line 97: root = _Node(root_id, None).
RootNode ==
    [nodes    |-> {root},
     parent   |-> [m \in {root} |-> None],
     children |-> [m \in {root} |-> << >>],
     loaded   |-> [m \in {root} |-> FALSE],
     expanded |-> [m \in {root} |-> FALSE],
     nkids    |-> nkids]

\* curses.wrapper starts _ui: lines 91-106.  A get_children failure on the
\* root is caught (lines 98-101) and leaves kids = [].
UiStart ==
    /\ pc = "wrapper"
    /\ termLog' = termLog \o <<"initscr", "enter">>
    /\ \E raises \in BOOLEAN :
         LET kids == IF raises THEN << >> ELSE get_children(root)
         IN  \E cs \in KidCounts(RootNode, Len(kids)) :
                LET t == Populate(RootNode, root, kids, cs)
                IN  /\ SetTree([t EXCEPT !.expanded[root] = TRUE])
                    /\ fetches' = [m \in t.nodes |-> IF m = root THEN 1 ELSE 0]
                    /\ failed' = IF raises THEN {root} ELSE {}
    /\ cursor' = 0
    /\ pc' = "render"
    /\ UNCHANGED <<visible, ch, selected_path, outcome, screen>>

\* _Node.label (line 21): the name of the id, names being numbered.  A name
\* is unique among the ids below one parent and repeats across branches; the
\* root has the name 0.
label(n) == IF n = root THEN 0 ELSE n[Len(n)]

\* Line 125.
is_leaf(n) == nkids[n] = 0

\* Line 126.
Marker(n) == IF is_leaf(n) THEN "leaf" ELSE IF ~expanded[n] THEN "closed" ELSE "open"

\* Lines 127-129: one drawn row; reverse video on the cursor row.
Row(vn, highlighted) ==
    [depth |-> vn[2], marker |-> Marker(vn[1]), label |-> label(vn[1]),
     reverse |-> highlighted]

\* Variant of Render: building the list empties the children lists it walks.
Render_Consuming ==
    /\ pc = "render"
    /\ visible' = build_visible(children, expanded, root)
    /\ children' = [m \in nodes |-> IF expanded[m] THEN << >> ELSE children[m]]
    /\ cursor' = IF visible' # << >>
                 THEN Max(0, Min(cursor, Len(visible') - 1))
                 ELSE cursor
    /\ screen' = [i \in 1..Len(visible') |-> Row(visible'[i], i - 1 = cursor')]
    /\ pc' = "getch"
    /\ UNCHANGED <<nodes, parent, loaded, expanded, nkids, ch, selected_path,
                   outcome, fetches, failed, termLog>>

\* Lines 108-140: the top of the loop, up to the blocking getch.  The
\* terminal is taken to have room for every row (line 122 never breaks).
Render ==
    /\ pc = "render"
    /\ visible' = build_visible(children, expanded, root)
    /\ cursor' = IF visible' # << >>
                 THEN Max(0, Min(cursor, Len(visible') - 1))
                 ELSE cursor
    /\ screen' = [i \in 1..Len(visible') |-> Row(visible'[i], i - 1 = cursor')]
    /\ pc' = "getch"
    /\ UNCHANGED <<tree, ch, selected_path, outcome, fetches, failed, termLog>>

\* The loop is left by break: line 201 (erase), the wrapper's cleanup, lines
\* 207-208.
Return(key, sel) ==
    /\ ch' = key
    /\ selected_path' = sel
    /\ outcome' = "returned"
    /\ termLog' = Append(termLog, "endwin")
    /\ screen' = << >>
    /\ pc' = "done"

\* An exception other than KeyboardInterrupt leaves _ui: the wrapper restores
\* the terminal and re-raises, and tree_select (lines 203-206) lets it pass.
Raise(key) ==
    /\ ch' = key
    /\ outcome' = "raised"
    /\ termLog' = Append(termLog, "endwin")
    /\ pc' = "done"
    /\ UNCHANGED <<selected_path, screen>>

\* Lines 205-206: KeyboardInterrupt during the session returns None.
Interrupt ==
    /\ pc \in {"render", "getch"}
    /\ selected_path' = None
    /\ outcome' = "returned"
    /\ termLog' = Append(termLog, "endwin")
    /\ pc' = "done"
    /\ UNCHANGED <<tree, cursor, visible, ch, fetches, failed, screen>>

----------------------------------------------------------------------------
\* The key handlers of _ui, lines 141-199.  Each reads one key at getch.

\* The handler ends and the loop goes round (also on `continue`).
Loop(key) ==
    /\ ch' = key
    /\ pc' = "render"
    /\ UNCHANGED <<selected_path, outcome, termLog, screen>>

\* get_children raises inside a handler (lines 155, 179, 192 have no try).
FetchRaises(key, n) ==
    /\ NeedsLoad(n)
    /\ fetches' = [fetches EXCEPT ![n] = @ + 1]
    /\ failed' = failed \cup {n}
    /\ Raise(key)
    /\ UNCHANGED <<tree, cursor, visible>>

\* Variant of KeyQuit: the row under the cursor is returned.
KeyQuit_Selects ==
    /\ pc = "getch"
    /\ Return("q", id(At(visible, cursor)[1]))
    /\ UNCHANGED <<tree, cursor, visible, fetches, failed>>

\* Lines 143-145.
KeyQuit ==
    /\ pc = "getch"
    /\ Return("q", None)
    /\ UNCHANGED <<tree, cursor, visible, fetches, failed>>

\* Line 147.
MoveUp(c) == Max(0, c - 1)

\* Lines 146-147.
KeyUp ==
    /\ pc = "getch"
    /\ cursor' = MoveUp(cursor)
    /\ Loop("up")
    /\ UNCHANGED <<tree, visible, fetches, failed>>

\* Variant of MoveDown: no clamp at the last row.
MoveDown_NoClamp(c, vis) == c + 1

\* Line 149.
MoveDown(c, vis) == IF vis # << >> THEN Min(Len(vis) - 1, c + 1) ELSE 0

\* Lines 148-149.
KeyDown ==
    /\ pc = "getch"
    /\ cursor' = MoveDown(cursor, visible)
    /\ Loop("down")
    /\ UNCHANGED <<tree, visible, fetches, failed>>

\* Variant of ExpandRight: expanded is set whether or not there are children.
ExpandRight_Always(t, n) == [t EXCEPT !.expanded[n] = TRUE]

\* Lines 158-159: `if node.children: node.expanded = True`.
ExpandRight(t, n) ==
    IF t.children[n] # << >> THEN [t EXCEPT !.expanded[n] = TRUE] ELSE t

\* Lines 150-159.
KeyRight ==
    /\ pc = "getch"
    /\ IF visible = << >>
       THEN Loop("right") /\ UNCHANGED <<tree, cursor, visible, fetches, failed>>
       ELSE LET node == At(visible, cursor)[1]
            IN  \/ \E t \in Fetched(node) :
                      /\ SetTree(ExpandRight(t, node))
                      /\ fetches' = Counted(node, t)
                      /\ Loop("right")
                      /\ UNCHANGED <<cursor, visible, failed>>
                \/ FetchRaises("right", node)

\* Variant of ParentRow: the parent is looked up by its label.
ParentRow_ByLabel(c, pv, p) ==
    IF \E idx \in 0..(Len(pv) - 1) : label(At(pv, idx)[1]) = label(p)
    THEN CHOOSE idx \in 0..(Len(pv) - 1) :
            /\ label(At(pv, idx)[1]) = label(p)
            /\ \A j \in 0..(idx - 1) : label(At(pv, j)[1]) # label(p)
    ELSE c

\* Lines 168-173: the row of the parent in the rebuilt list, else no move.
ParentRow(c, pv, p) ==
    IF \E idx \in 0..(Len(pv) - 1) : At(pv, idx)[1] = p
    THEN CHOOSE idx \in 0..(Len(pv) - 1) :
            /\ At(pv, idx)[1] = p
            /\ \A j \in 0..(idx - 1) : At(pv, j)[1] # p
    ELSE c

\* Variant of Collapse: the nodes below n are collapsed with it.
Collapse_Deep(t, n) ==
    [t EXCEPT !.expanded =
        [m \in t.nodes |->
            IF Len(m) >= Len(n) /\ SubSeq(m, 1, Len(n)) = n THEN FALSE
            ELSE t.expanded[m]]]

\* Lines 164-165: `node.expanded = False`.
Collapse(t, n) == [t EXCEPT !.expanded[n] = FALSE]

\* Lines 160-173.
KeyLeft ==
    /\ pc = "getch"
    /\ Loop("left")
    /\ UNCHANGED <<visible, fetches, failed>>
    /\ IF visible = << >>
       THEN UNCHANGED <<tree, cursor>>
       ELSE LET node == At(visible, cursor)[1]
            IN  IF expanded[node]
                THEN SetTree(Collapse(Cur, node)) /\ UNCHANGED cursor
                ELSE /\ UNCHANGED tree
                     /\ cursor' =
                          IF parent[node] # None
                          THEN ParentRow(cursor,
                                         build_visible(children, expanded, root),
                                         parent[node])
                          ELSE cursor

\* Lines 174-186.
KeyEnter ==
    /\ pc = "getch"
    /\ IF visible = << >>
       THEN Loop("enter") /\ UNCHANGED <<tree, cursor, visible, fetches, failed>>
       ELSE LET node == At(visible, cursor)[1]
            IN  \/ \E t \in Fetched(node) :
                      /\ SetTree(t)
                      /\ fetches' = Counted(node, t)
                      /\ Return("enter", id(node))
                      /\ UNCHANGED <<cursor, visible, failed>>
                \/ FetchRaises("enter", node)

\* Variant of Toggle: the flag is flipped whether or not there are children.
Toggle_Plain(t, n) == [t EXCEPT !.expanded[n] = ~@]

\* Line 195: `node.expanded = not node.expanded if node.children else False`.
Toggle(t, n) ==
    [t EXCEPT !.expanded[n] = IF t.children[n] # << >> THEN ~@ ELSE FALSE]

\* Lines 187-195.
KeySpace ==
    /\ pc = "getch"
    /\ IF visible = << >>
       THEN Loop("space") /\ UNCHANGED <<tree, cursor, visible, fetches, failed>>
       ELSE LET node == At(visible, cursor)[1]
            IN  \/ \E t \in Fetched(node) :
                      /\ SetTree(Toggle(t, node))
                      /\ fetches' = Counted(node, t)
                      /\ Loop("space")
                      /\ UNCHANGED <<cursor, visible, failed>>
                \/ FetchRaises("space", node)

\* Variant of KeyS: the node is loaded before it is selected, as Enter does.
KeyS_Loads ==
    /\ pc = "getch"
    /\ LET node == At(visible, cursor)[1]
       IN  \E t \in Fetched(node) :
              /\ SetTree(t)
              /\ fetches' = Counted(node, t)
              /\ Return("s", id(node))
              /\ UNCHANGED <<cursor, visible, failed>>

\* Lines 196-199.
KeyS ==
    /\ pc = "getch"
    /\ IF visible # << >>
       THEN Return("s", id(At(visible, cursor)[1]))
       ELSE Loop("s")
    /\ UNCHANGED <<tree, cursor, visible, fetches, failed>>

\* Any other key matches no branch of lines 143-199.
KeyOther ==
    /\ pc = "getch"
    /\ Loop("other")
    /\ UNCHANGED <<tree, cursor, visible, fetches, failed>>

Next ==
    \/ ExitAltScreen
    \/ UiStart
    \/ Render
    \/ KeyQuit
    \/ KeyUp
    \/ KeyDown
    \/ KeyRight
    \/ KeyLeft
    \/ KeyEnter
    \/ KeySpace
    \/ KeyS
    \/ KeyOther
    \/ Interrupt

Spec == Init /\ [][Next]_vars

----------------------------------------------------------------------------
\* Tree states for _build_visible taken alone: every tree of at most MaxNodes
\* nodes with at most MaxWidth children each, under every choice of expanded
\* flags (also those no session produces), with the list rebuilt after each
\* change.

InitTrees ==
    /\ pc = "getch"
    /\ nodes = {root}
    /\ parent = [m \in {root} |-> None]
    /\ children = [m \in {root} |-> << >>]
    /\ loaded = [m \in {root} |-> TRUE]
    /\ expanded = [m \in {root} |-> FALSE]
    /\ nkids = [m \in {root} |-> 0]
    /\ cursor = 0
    /\ visible = build_visible(children, expanded, root)
    /\ ch = "none"
    /\ selected_path = None
    /\ outcome = "running"
    /\ fetches = [m \in {root} |-> 0]
    /\ failed = {}
    /\ termLog = << >>
    /\ screen = << >>

\* One more child below n, constructed as _Node does (lines 23-25).
GrowTree ==
    \E n \in nodes :
        LET c  == Append(n, Len(children[n]) + 1)
            ns == nodes \cup {c}
        IN  /\ Cardinality(nodes) < MaxNodes
            /\ Len(children[n]) < MaxWidth
            /\ nodes' = ns
            /\ parent' = [m \in ns |-> IF m = c THEN n ELSE parent[m]]
            /\ children' = [m \in ns |-> IF m = c THEN << >>
                                         ELSE IF m = n THEN Append(children[n], c)
                                         ELSE children[m]]
            /\ loaded' = [m \in ns |-> TRUE]
            /\ expanded' = [m \in ns |-> IF m = c THEN FALSE ELSE expanded[m]]
            /\ nkids' = [m \in ns |-> Len(children'[m])]
            /\ fetches' = [m \in ns |-> 0]
            /\ visible' = build_visible(children', expanded', root)
            /\ UNCHANGED <<pc, cursor, ch, selected_path, outcome, failed,
                           termLog, screen>>

\* The expanded flag of n flipped.
FlipExpanded ==
    \E n \in nodes :
        /\ expanded' = [expanded EXCEPT ![n] = ~@]
        /\ visible' = build_visible(children, expanded', root)
        /\ UNCHANGED <<pc, nodes, parent, children, loaded, nkids, cursor, ch,
                       selected_path, outcome, fetches, failed, termLog,
                       screen>>

NextTrees == GrowTree \/ FlipExpanded

SpecTrees == InitTrees /\ [][NextTrees]_vars

----------------------------------------------------------------------------
\* Vocabulary of the properties

Browsing == pc \in {"render", "getch"}

\* The list _build_visible(root) would return in this state.
CurVisible == build_visible(children, expanded, root)

\* The node under the cursor at getch.
CurNode == At(visible, cursor)[1]

RECURSIVE Ancestors(_)
Ancestors(n) ==
    IF parent[n] = None THEN {} ELSE {parent[n]} \cup Ancestors(parent[n])

Depth(n) == Cardinality(Ancestors(n))

Shown(n) == \A a \in Ancestors(n) : expanded[a]

ChildIdx(p, c) == CHOOSE i \in 1..Len(children[p]) : children[p][i] = c

\* a comes before b in the pre-order of the tree: a is an ancestor of b, or
\* below their deepest common ancestor the branch of a is the earlier child.
PreOrderBefore(a, b) ==
    /\ a # b
    /\ \/ a \in Ancestors(b)
       \/ /\ b \notin Ancestors(a)
          /\ LET common == Ancestors(a) \cap Ancestors(b)
                 p  == CHOOSE q \in common : \A r \in common : Depth(r) <= Depth(q)
                 ca == CHOOSE x \in Ancestors(a) \cup {a} : parent[x] = p
                 cb == CHOOSE x \in Ancestors(b) \cup {b} : parent[x] = p
             IN  ChildIdx(p, ca) < ChildIdx(p, cb)

\* s with the elements of t put in after its first k elements.
InsertAfter(s, k, t) == SubSeq(s, 1, k) \o t \o SubSeq(s, k + 1, Len(s))

\* s without the m elements that follow its first k elements.
RemoveAfter(s, k, m) == SubSeq(s, 1, k) \o SubSeq(s, k + m + 1, Len(s))

----------------------------------------------------------------------------
\* C1: while the session is Browsing, the cursor is an index into the
\* current visible list, 0 <= cursor <= len(_build_visible(root)) - 1; this
\* holds right after each handler, before the loop clamps again.
C1_CursorInRange ==
    Browsing => (cursor >= 0 /\ cursor <= Len(CurVisible) - 1)

\* A collapse on a row below the root has just shrunk the visible list.
C1_Witness ==
    /\ pc = "render"
    /\ ch = "left"
    /\ cursor > 0
    /\ Len(CurVisible) < Len(visible)

\* C2 (as claimed): a get_children failure in any load attempt is swallowed:
\* the session is not ended by it, the node ends loaded with no children, and
\* the data source was called for it once only.
C2_FetchFailureSwallowed ==
    \A n \in failed :
        /\ outcome # "raised"
        /\ loaded[n]
        /\ children[n] = << >>
        /\ fetches[n] = 1

\* C3 (as claimed): a session that ends has returned a node identifier or
\* None; nothing reaches the caller as an error.
C3_EndsSelectedOrCancelled ==
    pc = "done" =>
        /\ outcome = "returned"
        /\ (selected_path = None \/ selected_path \in nodes)

\* C4: get_children is called at most once per node, and a loaded node has
\* had its one call.
C4_FetchAtMostOnce ==
    \A n \in nodes :
        /\ fetches[n] <= 1
        /\ loaded[n] => fetches[n] = 1

\* Right has re-expanded a node that was expanded and collapsed before (one
\* of its children was loaded meanwhile), still with a single fetch.
C4_Witness ==
    /\ pc = "render"
    /\ ch = "right"
    /\ CurNode # root
    /\ expanded[CurNode]
    /\ Len(CurVisible) > Len(visible)
    /\ \E c \in nodes : parent[c] = CurNode /\ loaded[c]
    /\ fetches[CurNode] = 1

\* C5 (as claimed): no exit-alternate-screen event precedes the enter event,
\* and when tree_select has ended every enter event is followed by an exit.
C5_TerminalAcquireRelease ==
    /\ \A i \in 1..Len(termLog) :
          termLog[i] = "exit" => \E j \in 1..(i - 1) : termLog[j] = "enter"
    /\ pc = "done" =>
          \A i \in 1..Len(termLog) :
             termLog[i] = "enter" =>
                \E j \in (i + 1)..Len(termLog) : termLog[j] = "exit"

\* C6 (as claimed): Enter or `s` ends the session in that step with the
\* identifier of the node under the cursor as the result.
C6_EnterOrSSelects ==
    [][(KeyEnter \/ KeyS) =>
          /\ pc' = "done"
          /\ outcome' = "returned"
          /\ selected_path' = id(CurNode)]_vars

\* C7: the quit key ends the session with None returned and no get_children
\* call made.
C7_QuitCancels ==
    [][KeyQuit =>
          /\ pc' = "done"
          /\ outcome' = "returned"
          /\ selected_path' = None
          /\ fetches' = fetches]_vars

\* The session was cancelled by the quit key with the cursor below the root.
C7_Witness ==
    /\ pc = "done"
    /\ ch = "q"
    /\ outcome = "returned"
    /\ selected_path = None
    /\ cursor > 0

\* C8: every node with expanded = true has loaded = true.
C8_ExpandedImpliesLoaded ==
    \A n \in nodes : expanded[n] => loaded[n]

\* A node below the root is expanded.
C8_Witness ==
    \E n \in nodes \ {root} : expanded[n] /\ loaded[n]

\* C9: for every tree state, the list _build_visible(root) returns is the
\* pre-order listing: it starts with (root, 0), holds exactly the nodes whose
\* ancestors are all expanded, each once and with its depth, in pre-order
\* with children in their list order.
C9_VisibleIsPreOrder ==
    nodes # {} =>
        LET bv == CurVisible
        IN  /\ visible = bv
            /\ bv[1] = <<root, 0>>
            /\ {bv[i][1] : i \in 1..Len(bv)} = {n \in nodes : Shown(n)}
            /\ Len(bv) = Cardinality({n \in nodes : Shown(n)})
            /\ \A i \in 1..Len(bv) : bv[i][2] = Depth(bv[i][1])
            /\ \A i, j \in 1..Len(bv) :
                  i < j => PreOrderBefore(bv[i][1], bv[j][1])

\* A node of depth 2 is listed while another node with children is collapsed.
C9_Witness ==
    /\ nodes # {}
    /\ Len(visible) >= 4
    /\ \E n \in nodes : Depth(n) = 2 /\ Shown(n)
    /\ \E m \in nodes : ~expanded[m] /\ children[m] # << >>

\* C10: expand on an unloaded collapsed node whose fetch returns children
\* puts exactly those children, in data source order at depth + 1, right
\* after the node in the visible list; a collapse of that node then takes
\* exactly those rows out again and leaves the cursor on the node.
C10_ExpandInsertsCollapseRestores ==
    [][/\ (KeyRight /\ pc' = "render" /\ ~loaded[CurNode]
             /\ children'[CurNode] # << >>) =>
            /\ children'[CurNode] = get_children(CurNode)
            /\ CurVisible' =
                 InsertAfter(CurVisible, cursor + 1,
                     [i \in 1..Len(children'[CurNode]) |->
                         <<children'[CurNode][i], At(visible, cursor)[2] + 1>>])
            /\ cursor' = cursor
       /\ (KeyLeft /\ expanded[CurNode] /\ children[CurNode] # << >>
             /\ \A i \in 1..Len(children[CurNode]) :
                   ~expanded[children[CurNode][i]]) =>
            /\ CurVisible' =
                 RemoveAfter(CurVisible, cursor + 1, Len(children[CurNode]))
            /\ cursor' = cursor
            /\ At(CurVisible', cursor')[1] = CurNode]_vars

\* A node below the root was expanded to two fresh children and has just
\* been collapsed again.
C10_Witness ==
    /\ pc = "render"
    /\ ch = "left"
    /\ CurNode # root
    /\ loaded[CurNode]
    /\ ~expanded[CurNode]
    /\ Len(children[CurNode]) = 2
    /\ \A i \in 1..2 : ~loaded[children[CurNode][i]]
    /\ Len(CurVisible) = Len(visible) - 2

C12_LeftMovesToParent ==
    [][(KeyLeft /\ ~expanded[CurNode] /\ parent[CurNode] # None) =>
          /\ UNCHANGED tree
          /\ At(CurVisible', cursor')[1] = parent[CurNode]]_vars

\* Left has moved the cursor up to a parent row while a row above it carries
\* the same label.
C12_Witness ==
    /\ pc = "render"
    /\ ch = "left"
    /\ visible = CurVisible
    /\ expanded[CurNode]
    /\ \E j \in 0..(cursor - 1) : label(At(visible, j)[1]) = label(CurNode)

\* C13 (as claimed): in every render, a node whose load attempt failed is
\* drawn with the leaf marker, neither the closed nor the open one, the root
\* included.
C13_FailedLoadDrawnAsLeaf ==
    pc = "getch" =>
        \A i \in 1..Len(visible) :
            visible[i][1] \in failed => screen[i].marker = "leaf"

C15_EnterToggles ==
    [][(KeyEnter /\ failed' = failed) =>
          IF children'[CurNode] # << >>
          THEN /\ expanded'[CurNode] = ~expanded[CurNode]
               /\ pc' = "render"
               /\ outcome' = "running"
          ELSE /\ pc' = "done"
               /\ selected_path' = id(CurNode)]_vars

\* C16 (as claimed): space loads the node under the cursor if need be, then
\* flips its expanded flag if it has children and clears it otherwise, and
\* the session goes on; on a loaded node with children the flip changes
\* nothing else, so a second space undoes the first.
C16_SpaceToggles ==
    [][KeySpace =>
          /\ pc' = "render"
          /\ outcome' = "running"
          /\ loaded'[CurNode]
          /\ expanded'[CurNode] =
                (IF children'[CurNode] # << >> THEN ~expanded[CurNode] ELSE FALSE)
          /\ (loaded[CurNode] /\ children[CurNode] # << >>) =>
                /\ UNCHANGED <<nodes, parent, children, loaded, cursor>>
                /\ \A m \in nodes \ {CurNode} : expanded'[m] = expanded[m]]_vars

\* The rows that walk lists below n when n is listed at depth d and expanded.
RowsBelow(chn, ex, n, d) == Tail(walk(chn, [ex EXCEPT ![n] = TRUE], n, d))

\* C17: every expanded node below the root has a non-empty children list;
\* the root is expanded with no children only if its first fetch raised or
\* found nothing.
C17_ExpandedHasChildren ==
    /\ \A n \in nodes \ {root} : expanded[n] => children[n] # << >>
    /\ (nodes # {} /\ expanded[root] /\ children[root] = << >>) =>
          (root \in failed \/ nkids[root] = 0)

\* The root's fetch raised although the id reports children, and the root is
\* still expanded, with nothing below it, after Right was pressed on it.
C17_Witness ==
    /\ pc = "render"
    /\ ch = "right"
    /\ root \in failed
    /\ nkids[root] > 0
    /\ expanded[root]
    /\ children[root] = << >>

\* C18: a collapse (Left or space on an expanded node) changes that node's
\* expanded flag and no other field of any node, and takes the rows below
\* the node out of the list; expanding it again (Right or space) calls no
\* data source, changes that flag only and puts back the rows that the kept
\* fields of its descendants give.
C18_CollapseKeepsDescendants ==
    [][/\ ((KeyLeft \/ KeySpace) /\ expanded[CurNode] /\ loaded[CurNode]) =>
            /\ ~expanded'[CurNode]
            /\ UNCHANGED <<nodes, parent, children, loaded, nkids, fetches>>
            /\ \A m \in nodes \ {CurNode} : expanded'[m] = expanded[m]
            /\ CurVisible' =
                 RemoveAfter(CurVisible, cursor + 1,
                     Len(RowsBelow(children, expanded, CurNode,
                                   At(visible, cursor)[2])))
       /\ ((KeyRight \/ KeySpace) /\ ~expanded[CurNode] /\ loaded[CurNode]
             /\ children[CurNode] # << >>) =>
            /\ expanded'[CurNode]
            /\ UNCHANGED <<nodes, parent, children, loaded, nkids, fetches>>
            /\ \A m \in nodes \ {CurNode} : expanded'[m] = expanded[m]
            /\ CurVisible' =
                 InsertAfter(CurVisible, cursor + 1,
                     RowsBelow(children, expanded, CurNode,
                               At(visible, cursor)[2]))]_vars

\* A node below the root was collapsed while one of its children was
\* expanded, and Right has brought the child's rows back with it.
C18_Witness ==
    /\ pc = "render"
    /\ ch = "right"
    /\ CurNode # root
    /\ expanded[CurNode]
    /\ \E i \in 1..Len(children[CurNode]) : expanded[children[CurNode][i]]
    /\ Len(CurVisible) >= Len(visible) + 2
    /\ fetches[CurNode] = 1

\* C19: among the key handlers, get_children is called only by expand,
\* Enter and space, for the node under the cursor and only while it is not
\* loaded; up, down, collapse/left, `s` and quit call no data source and
\* change no loaded flag or children list; `s` selects an unloaded node as it
\* is, Enter calls the data source for it first.
C19_OnlyExpandEnterSpaceFetch ==
    [][pc = "getch" =>
        /\ (\E n \in nodes : fetches'[n] # fetches[n]) =>
              /\ KeyRight \/ KeyEnter \/ KeySpace
              /\ ~loaded[CurNode]
              /\ fetches'[CurNode] = fetches[CurNode] + 1
              /\ \A n \in nodes \ {CurNode} : fetches'[n] = fetches[n]
        /\ (KeyUp \/ KeyDown \/ KeyLeft \/ KeyS \/ KeyQuit) =>
              UNCHANGED <<fetches, failed, nodes, loaded, children>>
        /\ (KeyS /\ ~loaded[CurNode]) =>
              (selected_path' = id(CurNode) /\ ~loaded'[CurNode])
        /\ (KeyEnter /\ ~loaded[CurNode]) =>
              /\ fetches'[CurNode] = fetches[CurNode] + 1
              /\ outcome' = "returned" => loaded'[CurNode]]_vars

\* `s` has selected a node that reports children and was never loaded.
C19_Witness ==
    /\ pc = "done"
    /\ ch = "s"
    /\ outcome = "returned"
    /\ selected_path \in nodes
    /\ ~loaded[selected_path]
    /\ nkids[selected_path] > 0
    /\ fetches[selected_path] = 0

====
